---------------------------- MODULE Spec2Model ----------------------------
(***************************************************************************)
(* BizPulse (src/BizOps.go): CSV ingest, KPI aggregation, z-score anomaly  *)
(* detection, moving-average forecast and the suggestion rules.            *)
(*                                                                         *)
(* Numbers.  Amounts are integers, for which float64 addition is exact.    *)
(* A float64 quotient is kept as the exact fraction [num, den]; a z-score  *)
(* (a quotient by a square root) is kept as its sign and its square.       *)
(* Text.  A string whose characters are inspected (a status, a header      *)
(* name, a CSV field) is a tuple of one-character strings.                 *)
(* Time.  A time.Time is [day, tod]: the calendar day counted from         *)
(* Saturday 2024-12-28 and the time of day; the zero time.Time is ZeroTime.*)
(***************************************************************************)
EXTENDS Integers, Sequences, FiniteSets, TLC

VARIABLES
    pc,        \* position of the run: what has been computed so far
    sales,     \* []Sale handed to computeKPIs (sorted in place by it)
    k,         \* KPIs returned by the first computeKPIs call
    k2,        \* KPIs returned by a second call on the same slice
    d,         \* []KVt handed to detectAnomalies / forecast7
    anoms,     \* result of detectAnomalies(d)
    forecast,  \* result of forecast7(d)
    sugIn,     \* arguments of suggestions(...)
    sug,       \* result of suggestions(...)
    input,     \* the rows of fields that parseCSV's csv.Reader finds in its input
    out,       \* []Sale returned by parseCSV
    err,       \* error returned by parseCSV
    out2,      \* []Sale returned by a second parseCSV over the same input
    err2,      \* error returned by that second call
    latestKPIs,\* the global var latestKPIs *KPIs as shared memory holds it
    heap,      \* the variable k of each handleUpload call, as its goroutine sees it
    pending,   \* the stores of each handleUpload call other goroutines cannot see yet
    reqs,      \* the HTTP requests: handler, position, locals and response
    apiKey     \* whether OPENAI_API_KEY is set

reparse == <<out2, err2>>
rest == <<pc, sales, k, k2, d, anoms, forecast, sugIn, sug, input, out, err, out2, err2>>
server == <<latestKPIs, heap, pending, reqs, apiKey>>

vars == <<pc, sales, k, k2, d, anoms, forecast, sugIn, sug, input, out, err,
          out2, err2, latestKPIs, heap, pending, reqs, apiKey>>

-----------------------------------------------------------------------------
(* Sequences and sets *)

Range(s) == {s[i] : i \in DOMAIN s}

RECURSIVE SumSeq(_)
SumSeq(s) == IF s = <<>> THEN 0 ELSE Head(s) + SumSeq(Tail(s))

RECURSIVE SumSet(_, _)
SumSet(S, f) ==
    IF S = {} THEN 0
    ELSE LET x == CHOOSE y \in S : TRUE IN f[x] + SumSet(S \ {x}, f)

Take(s, n) == IF Len(s) > n THEN SubSeq(s, 1, n) ELSE s

Min(a, b) == IF a < b THEN a ELSE b

Abs(x) == IF x < 0 THEN 0 - x ELSE x

-----------------------------------------------------------------------------
(* float64 quotients as exact fractions *)

RECURSIVE GCD(_, _)
GCD(a, b) == IF b = 0 THEN a ELSE GCD(b, a % b)

Frac(n, dn) ==
    LET g == GCD(Abs(n), Abs(dn))
        s == IF dn < 0 THEN 0 - 1 ELSE 1
    IN  [num |-> (s * n) \div g, den |-> (s * dn) \div g]

FInt(n) == [num |-> n, den |-> 1]
FAdd(a, b) == Frac(a.num * b.den + b.num * a.den, a.den * b.den)
FSub(a, b) == Frac(a.num * b.den - b.num * a.den, a.den * b.den)
FMul(a, b) == Frac(a.num * b.num, a.den * b.den)
FDiv(a, b) == Frac(a.num * b.den, a.den * b.num)
FLt(a, b) == a.num * b.den < b.num * a.den
FLe(a, b) == a.num * b.den <= b.num * a.den
FEq(a, b) == a.num * b.den = b.num * a.den
FZero == FInt(0)

-----------------------------------------------------------------------------
(* time.Time *)

DateAt(day, tod) == [day |-> day, tod |-> tod]

\* time.Time{}: midnight of 0001-01-01, 739247 days before day 0.
ZeroTime == DateAt(0 - 739247, 0)

Before(a, b) == a.day < b.day \/ (a.day = b.day /\ a.tod < b.tod)

\* Date.Format("2006-01-02"): the calendar day, the time of day dropped.
FormatDay(t) == t.day

\* time.Parse("2006-01-02", key): midnight of that day.
ParseDay(key) == [day |-> key, tod |-> 0]

\* Date.ISOWeek() on the days around the turn of 2024/2025: day 0 is
\* Saturday 2024-12-28 (ISO week 2024-W52), day 2 is Monday 2024-12-30
\* (ISO week 2025-W01), and every following Monday starts the next week.
ISOWeek(t) ==
    LET w == (t.day + 5) \div 7
    IN  IF w = 0 THEN [year |-> 2024, week |-> 52] ELSE [year |-> 2025, week |-> w]

-----------------------------------------------------------------------------
(* Text *)

Contains(s, sub) ==
    \E i \in 0..(Len(s) - Len(sub)) : SubSeq(s, i + 1, i + Len(sub)) = sub

S_overdue == <<"o", "v", "e", "r", "d", "u", "e">>
S_unpaid == <<"u", "n", "p", "a", "i", "d">>
S_due == <<"d", "u", "e">>
S_paid == <<"p", "a", "i", "d">>
S_pastdue == <<"p", "a", "s", "t", " ", "d", "u", "e">>

\* strings.ToLower on the letters the model's texts use.
LowerChar(c) ==
    CASE c = "A" -> "a" [] c = "C" -> "c" [] c = "D" -> "d" [] c = "E" -> "e"
      [] c = "I" -> "i" [] c = "M" -> "m" [] c = "N" -> "n" [] c = "O" -> "o"
      [] c = "P" -> "p" [] c = "R" -> "r" [] c = "S" -> "s" [] c = "T" -> "t"
      [] c = "U" -> "u" [] c = "V" -> "v"
      [] OTHER -> c

ToLower(s) == [i \in DOMAIN s |-> LowerChar(s[i])]

-----------------------------------------------------------------------------
(* computeKPIs: the aggregation loop *)

\* m[key] += v on a Go map: a missing key starts from the zero value.
MapAdd(m, key, v) ==
    IF key \in DOMAIN m THEN [m EXCEPT ![key] = @ + v] ELSE (key :> v) @@ m

EmptyMap == <<>>

\* The status test with the "due" alternative forgotten.
IsOverdue_NoDue(status) ==
    Contains(status, S_overdue) \/ Contains(status, S_unpaid)

\* The status test of the loop body.
IsOverdue(status) ==
    Contains(status, S_overdue) \/ Contains(status, S_unpaid) \/ Contains(status, S_due)

Acc0 ==
    [total |-> 0, orders |-> 0, byCustomer |-> EmptyMap, byProduct |-> EmptyMap,
     customers |-> {}, dr |-> EmptyMap, overdueCount |-> 0, overdueTotal |-> 0]

\* The loop body with overdue amounts kept out of the revenue total.
Accumulate_SkipOverdue(a, s) ==
    [total |-> IF IsOverdue(s.Status) THEN a.total ELSE a.total + s.Amount,
     orders |-> a.orders + 1,
     byCustomer |-> MapAdd(a.byCustomer, s.Customer, s.Amount),
     byProduct |-> MapAdd(a.byProduct, s.Product, s.Amount),
     customers |-> a.customers \cup {s.Customer},
     dr |-> MapAdd(a.dr, FormatDay(s.Date), s.Amount),
     overdueCount |-> IF IsOverdue(s.Status) THEN a.overdueCount + 1 ELSE a.overdueCount,
     overdueTotal |-> IF IsOverdue(s.Status) THEN a.overdueTotal + s.Amount ELSE a.overdueTotal]

\* One iteration of "for _, s := range sales".
Accumulate(a, s) ==
    [total |-> a.total + s.Amount,
     orders |-> a.orders + 1,
     byCustomer |-> MapAdd(a.byCustomer, s.Customer, s.Amount),
     byProduct |-> MapAdd(a.byProduct, s.Product, s.Amount),
     customers |-> a.customers \cup {s.Customer},
     dr |-> MapAdd(a.dr, FormatDay(s.Date), s.Amount),
     overdueCount |-> IF IsOverdue(s.Status) THEN a.overdueCount + 1 ELSE a.overdueCount,
     overdueTotal |-> IF IsOverdue(s.Status) THEN a.overdueTotal + s.Amount ELSE a.overdueTotal]

RECURSIVE Fold(_, _)
Fold(a, ss) == IF ss = <<>> THEN a ELSE Fold(Accumulate(a, Head(ss)), Tail(ss))

\* sort.Slice: some arrangement of the elements in which no element is
\* followed by one that is less (lt holds the pairs <<a, b>> with less(a, b));
\* equal elements come out in any order (the sort is not stable).
RECURSIVE SortedSeqs(_, _)
SortedSeqs(S, lt) ==
    IF S = {} THEN {<<>>}
    ELSE UNION {{<<x>> \o p : p \in SortedSeqs(S \ {x}, lt)} :
                x \in {y \in S : \A z \in S : <<z, y>> \notin lt}}

\* sort.Slice(sales, by Date.Before): the slice is sorted in place.
SortSales(ss) ==
    LET lt == {<<i, j>> \in (DOMAIN ss) \X (DOMAIN ss) : Before(ss[i].Date, ss[j].Date)}
    IN  {[n \in DOMAIN p |-> ss[p[n]]] : p \in SortedSeqs(DOMAIN ss, lt)}

\* The daily slice left in map order, the sort forgotten.
DailySeries_Unsorted(dr) ==
    LET E == {[Day |-> ParseDay(key), Value |-> dr[key]] : key \in DOMAIN dr}
    IN  SortedSeqs(E, {})

\* The daily map turned into a slice (in map order) and sorted by day.
DailySeries(dr) ==
    LET E == {[Day |-> ParseDay(key), Value |-> dr[key]] : key \in DOMAIN dr}
    IN  SortedSeqs(E, {<<a, b>> \in E \X E : Before(a.Day, b.Day)})

TopNLimit == 5

\* topN with the cut made before the sort: n entries in map order, then sorted.
topN_CutFirst(m, n) ==
    LET E == {[Key |-> key, Value |-> m[key]] : key \in DOMAIN m}
    IN  UNION {SortedSeqs(Range(Take(arr, n)), {<<a, b>> \in E \X E : a.Value > b.Value}) :
               arr \in SortedSeqs(E, {})}

\* topN(m, n): the entries in map order, sorted by value descending, cut to n.
topN(m, n) ==
    LET E == {[Key |-> key, Value |-> m[key]] : key \in DOMAIN m}
    IN  {Take(arr, n) : arr \in SortedSeqs(E, {<<a, b>> \in E \X E : a.Value > b.Value})}

\* retentionRate with calendar days as buckets instead of ISO weeks.
retentionRate_ByDay(ss) ==
    LET m == [c \in {ss[i].Customer : i \in DOMAIN ss} |->
                 {FormatDay(ss[i].Date) : i \in {j \in DOMAIN ss : ss[j].Customer = c}}]
        retained == Cardinality({c \in DOMAIN m : Cardinality(m[c]) >= 2})
    IN  IF Cardinality(DOMAIN m) = 0 THEN FZero
        ELSE Frac(retained, Cardinality(DOMAIN m))

\* retentionRate(sales): customers seen in two or more ISO weeks over customers.
retentionRate(ss) ==
    LET m == [c \in {ss[i].Customer : i \in DOMAIN ss} |->
                 {ISOWeek(ss[i].Date) : i \in {j \in DOMAIN ss : ss[j].Customer = c}}]
        retained == Cardinality({c \in DOMAIN m : Cardinality(m[c]) >= 2})
    IN  IF Cardinality(DOMAIN m) = 0 THEN FZero
        ELSE Frac(retained, Cardinality(DOMAIN m))

-----------------------------------------------------------------------------
(* detectAnomalies, forecast7, suggestions *)

MinPoints == 7
ZLimit == 2
Window == 7
AovLimit == 50

RECURSIVE FSum(_)
FSum(s) == IF s = <<>> THEN FZero ELSE FAdd(Head(s), FSum(Tail(s)))

Sign(n) == IF n < 0 THEN 0 - 1 ELSE IF n > 0 THEN 1 ELSE 0

\* z = (x.Value - mean) / std with std = math.Sqrt(variance): its sign and its square.
ZScore(dev, variance) == [sgn |-> Sign(dev.num), sq |-> FDiv(FMul(dev, dev), variance)]

\* The threshold test with the boundary left out: math.Abs(z) > 2.0
AbsGeLimit_Strict(z) == FLt(FInt(ZLimit * ZLimit), z.sq)

\* math.Abs(z) >= 2.0
AbsGeLimit(z) == FLe(FInt(ZLimit * ZLimit), z.sq)
\* an.Z < -2
BelowLimit(z) == z.sgn < 0 /\ FLt(FInt(ZLimit * ZLimit), z.sq)
\* an.Z > 2
AboveLimit(z) == z.sgn > 0 /\ FLt(FInt(ZLimit * ZLimit), z.sq)

detectAnomalies(dd) ==
    IF Len(dd) < MinPoints THEN <<>>
    ELSE
      LET n == Len(dd)
          sum == SumSeq([i \in 1..n |-> dd[i].Value])
          mean == FDiv(FInt(sum), FInt(n))
          dev == [i \in 1..n |-> FSub(FInt(dd[i].Value), mean)]
          ss == FSum([i \in 1..n |-> FMul(dev[i], dev[i])])
          variance == FDiv(ss, FInt(n))
      IN  IF variance.num = 0 THEN <<>>
          ELSE SelectSeq([i \in 1..n |->
                            [Day |-> dd[i].Day, Value |-> dd[i].Value,
                             Z |-> ZScore(dev[i], variance)]],
                         LAMBDA a : AbsGeLimit(a.Z))

\* forecast7 with the window taken as the last 7 calendar days.
forecast7_ByCalendar(dd) ==
    IF Len(dd) = 0 THEN FZero
    ELSE
      LET recent == {i \in DOMAIN dd : dd[i].Day.day > dd[Len(dd)].Day.day - Window}
          sum == SumSet(recent, [i \in DOMAIN dd |-> dd[i].Value])
          avg == FDiv(FInt(sum), FInt(Cardinality(recent)))
      IN  FMul(avg, FInt(7))

forecast7(dd) ==
    IF Len(dd) = 0 THEN FZero
    ELSE
      LET window == IF Len(dd) < Window THEN Len(dd) ELSE Window
          sum == SumSeq([i \in 1..window |-> dd[Len(dd) - window + i].Value])
          avg == FDiv(FInt(sum), FInt(window))
      IN  FMul(avg, FInt(7))

\* The message of one anomaly: a dip, a spike, or none.
AnomalyMsg(an) ==
    IF BelowLimit(an.Z) THEN <<[rule |-> "dip", day |-> FormatDay(an.Day), z |-> an.Z]>>
    ELSE IF AboveLimit(an.Z) THEN <<[rule |-> "spike", day |-> FormatDay(an.Day), z |-> an.Z]>>
    ELSE <<>>

RECURSIVE AnomalyMsgs(_)
AnomalyMsgs(as) == IF as = <<>> THEN <<>> ELSE AnomalyMsg(Head(as)) \o AnomalyMsgs(Tail(as))

\* suggestions with the bundling rule chained to the dunning rule by "else if".
suggestions_ElseIf(total, aov, overdueCount, overdueTotal, topC, topP, as) ==
    (IF overdueCount > 0
       THEN <<[rule |-> "dunning", count |-> overdueCount, total |-> overdueTotal]>>
       ELSE IF FLt(aov, FInt(AovLimit)) THEN <<[rule |-> "bundling"]>> ELSE <<>>)
    \o (IF Len(topC) > 0 THEN <<[rule |-> "loyalty", names |-> topC]>> ELSE <<>>)
    \o (IF Len(topP) > 0 THEN <<[rule |-> "products", names |-> topP]>> ELSE <<>>)
    \o AnomalyMsgs(as)
    \o (IF total > 0 /\ FLt(FZero, aov) /\ overdueCount = 0 /\ Len(as) = 0
          THEN <<[rule |-> "steady"]>> ELSE <<>>)

suggestions(total, aov, overdueCount, overdueTotal, topC, topP, as) ==
    (IF overdueCount > 0
       THEN <<[rule |-> "dunning", count |-> overdueCount, total |-> overdueTotal]>>
       ELSE <<>>)
    \o (IF FLt(aov, FInt(AovLimit)) THEN <<[rule |-> "bundling"]>> ELSE <<>>)
    \o (IF Len(topC) > 0 THEN <<[rule |-> "loyalty", names |-> topC]>> ELSE <<>>)
    \o (IF Len(topP) > 0 THEN <<[rule |-> "products", names |-> topP]>> ELSE <<>>)
    \o AnomalyMsgs(as)
    \o (IF total > 0 /\ FLt(FZero, aov) /\ overdueCount = 0 /\ Len(as) = 0
          THEN <<[rule |-> "steady"]>> ELSE <<>>)

-----------------------------------------------------------------------------
(* computeKPIs *)

\* KPIs{}: the zero value returned for an empty slice.
ZeroKPIs ==
    [From |-> ZeroTime, To |-> ZeroTime, TotalRevenue |-> 0, AvgOrderValue |-> FZero,
     Orders |-> 0, UniqueCustomers |-> 0, TopCustomers |-> <<>>, TopProducts |-> <<>>,
     DailyRevenue |-> <<>>, RetentionRate |-> FZero, ForecastNext7DaysTotal |-> FZero,
     Anomalies |-> <<>>, OverdueCount |-> 0, OverdueTotal |-> 0, Suggestions |-> <<>>]

\* The report built from the sorted slice and the three slices made from maps.
Report(ss, daily, topCust, topProd) ==
    LET a == Fold(Acc0, ss)
        avgOrder == IF a.orders > 0 THEN Frac(a.total, a.orders) ELSE FZero
        as == detectAnomalies(daily)
    IN  [From |-> ss[1].Date, To |-> ss[Len(ss)].Date,
         TotalRevenue |-> a.total,
         AvgOrderValue |-> avgOrder,
         Orders |-> a.orders,
         UniqueCustomers |-> Cardinality(a.customers),
         TopCustomers |-> topCust,
         TopProducts |-> topProd,
         DailyRevenue |-> daily,
         RetentionRate |-> retentionRate(ss),
         ForecastNext7DaysTotal |-> forecast7(daily),
         Anomalies |-> as,
         OverdueCount |-> a.overdueCount,
         OverdueTotal |-> a.overdueTotal,
         Suggestions |-> suggestions(a.total, avgOrder, a.overdueCount, a.overdueTotal,
                                     topCust, topProd, as)]

\* Every outcome of computeKPIs(sales): the slice as it is left (sorted in
\* place) and the report; the outcomes differ by the order the sort and the
\* map iterations produce.
computeKPIs(ss0) ==
    IF Len(ss0) = 0 THEN {[sales |-> ss0, k |-> ZeroKPIs]}
    ELSE
      UNION {
        LET a == Fold(Acc0, ss)
        IN  {[sales |-> ss, k |-> Report(ss, daily, tc, tp)] :
               daily \in DailySeries(a.dr),
               tc \in topN(a.byCustomer, TopNLimit),
               tp \in topN(a.byProduct, TopNLimit)}
        : ss \in SortSales(ss0)}

-----------------------------------------------------------------------------
(* The runs *)

NoKPIs == [none |-> TRUE]

Customers == {"Acme", "Zen"}

MaxSales == 2

\* Saturday 2024-12-28 at 00:00 and at 01:00, the Sunday and the Monday after.
KpiDates == {DateAt(0, 0), DateAt(0, 1), DateAt(1, 0), DateAt(2, 0)}

KpiSales ==
    [Date : KpiDates, Customer : Customers, Product : {"WidgetA"},
     Amount : {0 - 1, 2}, Status : {S_paid, S_unpaid, S_pastdue}]

SeqsUpTo(S, n) == UNION {[1..m -> S] : m \in 0..n}

IdleSeries == d = <<>> /\ anoms = <<>> /\ forecast = FZero
IdleSuggest == sugIn = <<>> /\ sug = <<>>
IdleParse == input = <<>> /\ out = <<>> /\ err = "" /\ out2 = <<>> /\ err2 = ""
IdleKPIs == sales = <<>> /\ k = NoKPIs /\ k2 = NoKPIs
\* No server: no request, latestKPIs nil.
IdleServer == latestKPIs = 0 /\ heap = <<>> /\ pending = <<>> /\ reqs = <<>> /\ apiKey = FALSE

\* k := computeKPIs(sales)
RunKPIs ==
    /\ pc = "start"
    /\ \E r \in computeKPIs(sales) : sales' = r.sales /\ k' = r.k
    /\ pc' = "computed"
    /\ UNCHANGED <<k2, d, anoms, forecast, sugIn, sug, input, out, err, reparse, server>>

InitKPI ==
    /\ pc = "start"
    /\ sales \in SeqsUpTo(KpiSales, MaxSales)
    /\ k = NoKPIs /\ k2 = NoKPIs
    /\ IdleSeries /\ IdleSuggest /\ IdleParse /\ IdleServer

NextKPI == RunKPIs

SpecKPI == InitKPI /\ [][NextKPI]_vars

-----------------------------------------------------------------------------
(* Claims on the aggregation (SpecKPI) *)

AmountsOf(ss) == [i \in DOMAIN ss |-> ss[i].Amount]
AmountsAt(ss, I) == SumSet(I, AmountsOf(ss))
Computing == pc = "start" /\ pc' = "computed"

\* C1: for every record sequence handed to computeKPIs, TotalRevenue is the
\* sum of the amounts of all the records and Orders is their number.
C1_TotalAndOrders ==
    [][Computing =>
         /\ k'.TotalRevenue = SumSeq(AmountsOf(sales))
         /\ k'.Orders = Len(sales)]_vars

\* Two records of different status and amount were summed: -1 + 2.
C1_Witness ==
    /\ pc = "computed" /\ k.Orders = 2 /\ k.TotalRevenue = 1
    /\ sales[1].Status # sales[2].Status /\ sales[1].Customer # sales[2].Customer

\* C2: the DailyRevenue values sum to TotalRevenue; there is exactly one point
\* per calendar day occurring in the records, none for any other day, and the
\* points are in strictly ascending day order.
C2_DailySeries ==
    [][Computing =>
         LET dl == k'.DailyRevenue
             days == {sales[i].Date.day : i \in DOMAIN sales}
         IN  /\ SumSeq([i \in DOMAIN dl |-> dl[i].Value]) = k'.TotalRevenue
             /\ Len(dl) = Cardinality(days)
             /\ {dl[i].Day.day : i \in DOMAIN dl} = days
             /\ \A i \in DOMAIN dl : dl[i].Day.tod = 0
             /\ \A i, j \in DOMAIN dl : i < j => Before(dl[i].Day, dl[j].Day)]_vars

\* Two records at different times of one Saturday make one point.
C2_Witness ==
    /\ pc = "computed" /\ k.Orders = 2 /\ Len(k.DailyRevenue) = 1
    /\ sales[1].Date # sales[2].Date
    /\ k.DailyRevenue[1].Value = 4

\* C3: OverdueCount counts, and OverdueTotal sums, the records whose
\* lower-cased status contains "overdue", "unpaid" or "due"; their amounts
\* stay in TotalRevenue.
AtRisk(status) ==
    \E sub \in {S_overdue, S_unpaid, S_due} : Contains(ToLower(status), sub)

C3_Overdue ==
    [][Computing =>
         LET risky == {i \in DOMAIN sales : AtRisk(sales[i].Status)}
         IN  /\ k'.OverdueCount = Cardinality(risky)
             /\ k'.OverdueTotal = AmountsAt(sales, risky)
             /\ k'.TotalRevenue = AmountsAt(sales, DOMAIN sales)]_vars

\* A "past due" record of 2 beside a paid record of -1: OverdueTotal 2 > TotalRevenue 1.
C3_Witness ==
    /\ pc = "computed" /\ k.OverdueCount = 1 /\ k.OverdueTotal > k.TotalRevenue
    /\ \E i \in DOMAIN sales : sales[i].Status = S_pastdue /\ sales[i].Amount = 2

\* C6: RetentionRate is the number of customers seen in two or more ISO
\* year-weeks over the number of customers; it lies in [0, 1], its denominator
\* is UniqueCustomers, and it is 0 when every customer is seen in one week only
\* or there is no record.
WeeksOf(ss, c) == {ISOWeek(ss[i].Date) : i \in {j \in DOMAIN ss : ss[j].Customer = c}}

C6_Retention ==
    [][Computing =>
         LET custs == {sales[i].Customer : i \in DOMAIN sales}
             kept == {c \in custs : Cardinality(WeeksOf(sales, c)) >= 2}
             rate == k'.RetentionRate
         IN  /\ rate.den > 0
             /\ rate.num * Cardinality(custs) = Cardinality(kept) * rate.den
             /\ FLe(FZero, rate) /\ FLe(rate, FInt(1))
             /\ k'.UniqueCustomers = Cardinality(custs)
             /\ (kept = {} => rate.num = 0)]_vars

\* One customer on Sunday 2024-12-29 (2024-W52) and Monday 2024-12-30 (2025-W01).
C6_Witness ==
    /\ pc = "computed" /\ k.UniqueCustomers = 1 /\ k.Orders = 2
    /\ FEq(k.RetentionRate, FInt(1))
    /\ {sales[i].Date.day : i \in DOMAIN sales} = {1, 2}

-----------------------------------------------------------------------------
(* detectAnomalies and forecast7 on a daily series (SpecSeries) *)

MaxPoints == 8

SeriesValues == {0 - 1, 0, 1}

\* Daily series: ascending days, one day or three days apart.
SeriesOf(vals, gap) ==
    [i \in DOMAIN vals |-> [Day |-> DateAt(gap * (i - 1), 0), Value |-> vals[i]]]

\* anoms := detectAnomalies(daily)
RunDetect ==
    /\ pc = "start"
    /\ anoms' = detectAnomalies(d)
    /\ pc' = "detected"
    /\ UNCHANGED <<sales, k, k2, d, forecast, sugIn, sug, input, out, err, reparse, server>>

\* forecast := forecast7(daily)
RunForecast ==
    /\ pc = "detected"
    /\ forecast' = forecast7(d)
    /\ pc' = "forecast"
    /\ UNCHANGED <<sales, k, k2, d, anoms, sugIn, sug, input, out, err, reparse, server>>

InitSeries ==
    /\ pc = "start"
    /\ \E vals \in SeqsUpTo(SeriesValues, MaxPoints), gap \in {1, 3} : d = SeriesOf(vals, gap)
    /\ anoms = <<>> /\ forecast = FZero
    /\ IdleKPIs /\ IdleSuggest /\ IdleParse /\ IdleServer

NextSeries == RunDetect \/ RunForecast

SpecSeries == InitSeries /\ [][NextSeries]_vars

\* C4: detectAnomalies returns nothing for fewer than 7 points or when all
\* daily totals are equal; otherwise exactly the days with |z| >= 2 for the
\* population z-score (|z| = 2 included), each with its value, in series order.
\* With S the sum and n the length, |z| >= 2 is n * (n*x - S)^2 >= 4 * Q,
\* where Q is the sum of (n*x_i - S)^2.
C4_Anomalies ==
    pc \in {"detected", "forecast"} =>
      LET n == Len(d)
          S == SumSeq([i \in 1..n |-> d[i].Value])
          Q == SumSeq([i \in 1..n |-> (n * d[i].Value - S) * (n * d[i].Value - S)])
          Flagged(x) == n * (n * x.Value - S) * (n * x.Value - S) >= 4 * Q
      IN  IF n < 7 \/ \A i, j \in 1..n : d[i].Value = d[j].Value
            THEN anoms = <<>>
            ELSE [i \in DOMAIN anoms |-> [Day |-> anoms[i].Day, Value |-> anoms[i].Value]]
                   = SelectSeq(d, Flagged)

\* Eight points, six equal and one on each side: both outliers have |z| = 2 exactly.
C4_Witness ==
    /\ pc = "detected" /\ Len(d) = 8 /\ Len(anoms) = 2
    /\ anoms[1].Z.sq = FInt(4) /\ anoms[2].Z.sq = FInt(4)
    /\ anoms[1].Z.sgn # anoms[2].Z.sgn

-----------------------------------------------------------------------------
(* suggestions on its arguments (SpecSuggest) *)

MaxAnoms == 2

\* z = -2.5, -2, 2, 2.5
ZKinds ==
    {[sgn |-> s, sq |-> q] : s \in {0 - 1, 1}, q \in {FInt(4), Frac(25, 4)}}

AnomsOf(zs) == [i \in DOMAIN zs |-> [Day |-> DateAt(i - 1, 0), Value |-> 0, Z |-> zs[i]]]

TopLists == {<<>>, <<[Key |-> "Acme", Value |-> 40]>>}

SugInputs ==
    {[total |-> tot, aov |-> Frac(tot, n), overdueCount |-> oc, overdueTotal |-> 40 * oc,
      topC |-> tc, topP |-> tp, anoms |-> AnomsOf(zs)] :
       tot \in {0 - 40, 0, 40, 120}, n \in {1, 2}, oc \in {0, 1},
       tc \in TopLists, tp \in TopLists, zs \in SeqsUpTo(ZKinds, MaxAnoms)}

\* sug := suggestions(total, avgOrder, overdueCount, overdueTotal, topCust, topProd, anoms)
RunSuggest ==
    /\ pc = "start"
    /\ sug' = suggestions(sugIn.total, sugIn.aov, sugIn.overdueCount, sugIn.overdueTotal,
                          sugIn.topC, sugIn.topP, sugIn.anoms)
    /\ pc' = "suggested"
    /\ UNCHANGED <<sales, k, k2, d, anoms, forecast, sugIn, input, out, err, reparse, server>>

InitSuggest ==
    /\ pc = "start"
    /\ sugIn \in SugInputs
    /\ sug = <<>>
    /\ IdleKPIs /\ IdleSeries /\ IdleParse /\ IdleServer

NextSuggest == RunSuggest

SpecSuggest == InitSuggest /\ [][NextSuggest]_vars

Rank(m) ==
    CASE m.rule = "dunning" -> 1
      [] m.rule = "bundling" -> 2
      [] m.rule = "loyalty" -> 3
      [] m.rule = "products" -> 4
      [] m.rule \in {"dip", "spike"} -> 5
      [] m.rule = "steady" -> 6

Has(rule) == \E i \in DOMAIN sug : sug[i].rule = rule

\* C7: the list is in the fixed order dunning, bundling, loyalty, products,
\* anomaly messages (in the day order of the anomalies), steady; each of the
\* five single messages is present exactly when its own condition holds,
\* whatever the other rules do.
C7_Order ==
    pc = "suggested" =>
      LET ms == SelectSeq(sug, LAMBDA m : m.rule \in {"dip", "spike"})
      IN  /\ \A i, j \in DOMAIN sug : i < j =>
                /\ Rank(sug[i]) <= Rank(sug[j])
                /\ (Rank(sug[i]) = Rank(sug[j]) => Rank(sug[i]) = 5)
          /\ Has("dunning") <=> sugIn.overdueCount > 0
          /\ Has("bundling") <=> FLt(sugIn.aov, FInt(50))
          /\ Has("loyalty") <=> Len(sugIn.topC) > 0
          /\ Has("products") <=> Len(sugIn.topP) > 0
          /\ Has("steady") <=>
               (sugIn.total > 0 /\ FLt(FZero, sugIn.aov) /\ sugIn.overdueCount = 0
                  /\ Len(sugIn.anoms) = 0)
          /\ \A i, j \in DOMAIN ms : i < j => ms[i].day < ms[j].day
          /\ \A i \in DOMAIN ms : \E j \in DOMAIN sugIn.anoms :
                /\ FormatDay(sugIn.anoms[j].Day) = ms[i].day
                /\ sugIn.anoms[j].Z = ms[i].z

\* All four single rules fire and two anomalies follow them, dip then spike.
C7_Witness ==
    /\ pc = "suggested" /\ Len(sug) = 6
    /\ [i \in 1..6 |-> sug[i].rule]
         = <<"dunning", "bundling", "loyalty", "products", "dip", "spike">>

-----------------------------------------------------------------------------
(* Two runs over the same records (SpecRerun) *)

MaxRerunSales == 2

RerunSales ==
    [Date : {DateAt(0, 0)}, Customer : Customers, Product : {"WidgetA", "WidgetB"},
     Amount : {1, 2}, Status : {S_paid}]

\* A second computeKPIs over the same records (the same file uploaded or
\* reported again).
RerunKPIs ==
    /\ pc = "computed"
    /\ \E r \in computeKPIs(sales) : sales' = r.sales /\ k2' = r.k
    /\ pc' = "recomputed"
    /\ UNCHANGED <<k, d, anoms, forecast, sugIn, sug, input, out, err, reparse, server>>

InitRerun ==
    /\ pc = "start"
    /\ sales \in SeqsUpTo(RerunSales, MaxRerunSales)
    /\ k = NoKPIs /\ k2 = NoKPIs
    /\ IdleSeries /\ IdleSuggest /\ IdleParse /\ IdleServer

NextRerun == RunKPIs \/ RerunKPIs

SpecRerun == InitRerun /\ [][NextRerun]_vars

\* C8: two runs of computeKPIs on the same records give the same TopCustomers
\* and TopProducts, keys in the same order, and the same suggestions, also when
\* two customers or two products have equal revenue.
C8_Deterministic ==
    pc = "recomputed" =>
      /\ k2.TopCustomers = k.TopCustomers
      /\ k2.TopProducts = k.TopProducts
      /\ k2.Suggestions = k.Suggestions

-----------------------------------------------------------------------------
(* Top-N over more keys than the cut keeps (SpecTop) *)

MaxBuys == 2

TopKeys == <<"Acme", "Atlas", "Bolt", "Core", "Dyna", "Zen">>

\* The key of each purchase: key i repeated buys[i] times, in key order.
RECURSIVE Purchases(_, _)
Purchases(buys, i) ==
    IF i > Len(TopKeys) THEN <<>>
    ELSE [n \in 1..buys[i] |-> TopKeys[i]] \o Purchases(buys, i + 1)

\* One purchase of amount 1 a day; the keys are the customers (one product)
\* or the products (one customer).
TopSales(buys, by) ==
    LET keys == Purchases(buys, 1)
    IN  [j \in DOMAIN keys |->
           [Date |-> DateAt(j - 1, 0),
            Customer |-> IF by = "Customer" THEN keys[j] ELSE "Acme",
            Product |-> IF by = "Product" THEN keys[j] ELSE "WidgetA",
            Amount |-> 1, Status |-> S_paid]]

InitTop ==
    /\ pc = "start"
    /\ \E buys \in [DOMAIN TopKeys -> 0..MaxBuys], by \in {"Customer", "Product"} :
          sales = TopSales(buys, by)
    /\ k = NoKPIs /\ k2 = NoKPIs
    /\ IdleSeries /\ IdleSuggest /\ IdleParse /\ IdleServer

NextTop == RunKPIs

SpecTop == InitTop /\ [][NextTop]_vars

RevenueOf(ss, field, key) == AmountsAt(ss, {i \in DOMAIN ss : ss[i][field] = key})

TopOK(top, ss, field) ==
    LET keys == {ss[i][field] : i \in DOMAIN ss}
        listed == {top[i].Key : i \in DOMAIN top}
    IN  /\ Len(top) = Min(5, Cardinality(keys))
        /\ Cardinality(listed) = Len(top)
        /\ \A i \in DOMAIN top :
              top[i].Key \in keys /\ top[i].Value = RevenueOf(ss, field, top[i].Key)
        /\ \A i, j \in DOMAIN top : i < j => top[i].Value >= top[j].Value
        /\ \A key \in keys \ listed : \A i \in DOMAIN top :
              RevenueOf(ss, field, key) <= top[i].Value

\* C9: TopCustomers, and likewise TopProducts, has min(5, number of keys)
\* entries with distinct keys, each with its key's total revenue, in
\* non-increasing revenue order, and no key left out has more revenue than a
\* listed one.
C9_TopN ==
    [][Computing =>
         /\ TopOK(k'.TopCustomers, sales, "Customer")
         /\ TopOK(k'.TopProducts, sales, "Product")]_vars

\* Six customers, the best with two purchases; the fifth listed and the one
\* left out both have revenue 1.
C9_Witness ==
    /\ pc = "computed"
    /\ Cardinality({sales[i].Customer : i \in DOMAIN sales}) = 6
    /\ Len(k.TopCustomers) = 5
    /\ k.TopCustomers[1].Value = 2 /\ k.TopCustomers[5].Value = 1
    /\ \E i \in DOMAIN sales :
          /\ \A j \in 1..5 : k.TopCustomers[j].Key # sales[i].Customer
          /\ RevenueOf(sales, "Customer", sales[i].Customer) = 1

-----------------------------------------------------------------------------
(* parseCSV: texts *)

IsSpace(c) == c = " "

RECURSIVE TrimLeft(_)
TrimLeft(s) == IF s # <<>> /\ IsSpace(Head(s)) THEN TrimLeft(Tail(s)) ELSE s

RECURSIVE TrimRight(_)
TrimRight(s) ==
    IF s # <<>> /\ IsSpace(s[Len(s)]) THEN TrimRight(SubSeq(s, 1, Len(s) - 1)) ELSE s

\* strings.TrimSpace
TrimSpace(s) == TrimRight(TrimLeft(s))

\* strings.ReplaceAll(s, ",", "")
DropCommas(s) == SelectSeq(s, LAMBDA c : c # ",")

Digits == {"0", "1", "2", "3", "4", "5", "6", "7", "8", "9"}

DigitVal(c) ==
    CASE c = "0" -> 0 [] c = "1" -> 1 [] c = "2" -> 2 [] c = "3" -> 3 [] c = "4" -> 4
      [] c = "5" -> 5 [] c = "6" -> 6 [] c = "7" -> 7 [] c = "8" -> 8 [] c = "9" -> 9

RECURSIVE NumVal(_)
NumVal(s) == IF s = <<>> THEN 0 ELSE 10 * NumVal(SubSeq(s, 1, Len(s) - 1)) + DigitVal(s[Len(s)])

\* strconv.ParseFloat(s, 64) with the error dropped, on decimal integers and
\* on texts that are no number: the value, or 0 for a text that does not parse.
ParseFloat(s) ==
    LET neg == s # <<>> /\ Head(s) = "-"
        body == IF s # <<>> /\ Head(s) \in {"-", "+"} THEN Tail(s) ELSE s
    IN  IF body # <<>> /\ \A i \in DOMAIN body : body[i] \in Digits
          THEN (IF neg THEN 0 - NumVal(body) ELSE NumVal(body))
          ELSE 0

T_Unknown == <<"U", "n", "k", "n", "o", "w", "n">>

\* nz(a, b)
nz(a, b) == IF TrimSpace(a) = <<>> THEN b ELSE a

-----------------------------------------------------------------------------
(* parseCSV: parseDateFlexible *)

\* A layout of time.Parse: Y, M, D, h, m, s stand for a digit of the year,
\* month, day, hour, minute, second; any other character stands for itself.
Layouts ==
    << <<"Y", "Y", "Y", "Y", "-", "M", "M", "-", "D", "D">>,
       <<"D", "D", "/", "M", "M", "/", "Y", "Y", "Y", "Y">>,
       <<"M", "M", "/", "D", "D", "/", "Y", "Y", "Y", "Y">>,
       <<"Y", "Y", "Y", "Y", "/", "M", "M", "/", "D", "D">>,
       <<"Y", "Y", "Y", "Y", ".", "M", "M", ".", "D", "D">>,
       <<"Y", "Y", "Y", "Y", "-", "M", "M", "-", "D", "D", "T", "h", "h", ":", "m", "m", ":", "s", "s", "Z">> >>

PartialLayout == <<"Y", "Y", "Y", "Y", "-", "M", "M">>

Placeholders == {"Y", "M", "D", "h", "m", "s"}

Shaped(s, layout) ==
    /\ Len(s) = Len(layout)
    /\ \A i \in DOMAIN layout :
          IF layout[i] \in Placeholders THEN s[i] \in Digits ELSE s[i] = layout[i]

\* The number written at the places of one placeholder (0 when the layout has none).
Part(s, layout, ph) == NumVal(SelectSeq([i \in DOMAIN layout |-> IF layout[i] = ph THEN s[i] ELSE "-"],
                                        LAMBDA c : c # "-"))

HasPart(layout, ph) == \E i \in DOMAIN layout : layout[i] = ph

IsLeap(y) == y % 4 = 0 /\ (y % 100 # 0 \/ y % 400 = 0)

DaysIn(y, m) ==
    IF m = 2 THEN (IF IsLeap(y) THEN 29 ELSE 28)
    ELSE IF m \in {4, 6, 9, 11} THEN 30 ELSE 31

\* The day number of a civil date, counted from 2024-12-28 (20085 days after
\* 1970-01-01).
DayNumber(y, m, dd) ==
    LET yy == IF m <= 2 THEN y - 1 ELSE y
        era == yy \div 400
        yoe == yy - era * 400
        mp == (m + 9) % 12
        doy == (153 * mp + 2) \div 5 + dd - 1
        doe == yoe * 365 + yoe \div 4 - yoe \div 100 + doy
    IN  era * 146097 + doe - 719468 - 20085

\* time.Parse(layout, s): [ok, t].
TimeParse(layout, s) ==
    IF ~Shaped(s, layout) THEN [ok |-> FALSE, t |-> ZeroTime]
    ELSE
      LET y == Part(s, layout, "Y")
          m == Part(s, layout, "M")
          dd == IF HasPart(layout, "D") THEN Part(s, layout, "D") ELSE 1
          hh == Part(s, layout, "h")
      IN  IF m \in 1..12 /\ dd \in 1..DaysIn(y, m) /\ hh < 24
                /\ Part(s, layout, "m") < 60 /\ Part(s, layout, "s") < 60
            THEN [ok |-> TRUE, t |-> DateAt(DayNumber(y, m, dd), hh)]
            ELSE [ok |-> FALSE, t |-> ZeroTime]

RECURSIVE FirstParse(_, _)
FirstParse(layouts, s) ==
    IF layouts = <<>> THEN [ok |-> FALSE, t |-> ZeroTime]
    ELSE IF TimeParse(Head(layouts), s).ok THEN TimeParse(Head(layouts), s)
    ELSE FirstParse(Tail(layouts), s)

\* parseDateFlexible(s): the first layout that parses wins; time.Time{} if none.
parseDateFlexible(s0) ==
    LET s == TrimSpace(s0)
    IN  FirstParse(Layouts \o <<PartialLayout>>, s).t

IsZero(t) == t = ZeroTime

-----------------------------------------------------------------------------
(* parseCSV *)

T_date == <<"d", "a", "t", "e">>
T_customer == <<"c", "u", "s", "t", "o", "m", "e", "r">>
T_product == <<"p", "r", "o", "d", "u", "c", "t">>
T_amount == <<"a", "m", "o", "u", "n", "t">>
T_status == <<"s", "t", "a", "t", "u", "s">>

NoError == ""

\* cr.ReadAll() with TrimLeadingSpace: an error when a row has not the number
\* of fields of the first one, else the rows, each field without its leading
\* spaces.
ReadAll(in) ==
    IF \E i \in DOMAIN in : Len(in[i]) # Len(in[1])
      THEN [records |-> <<>>, err |-> "csv read"]
      ELSE [records |-> [i \in DOMAIN in |-> [j \in DOMAIN in[i] |-> TrimLeft(in[i][j])]],
            err |-> NoError]

\* The header map h: lower-cased trimmed column name -> index; of two columns
\* with one name the later stays.
HeaderMap(hdr) ==
    LET name == [i \in DOMAIN hdr |-> ToLower(TrimSpace(hdr[i]))]
    IN  [n \in Range(name) |-> CHOOSE i \in DOMAIN hdr :
            name[i] = n /\ \A j \in DOMAIN hdr : name[j] = n => j <= i]

\* get(row, key): the range over the map h visits the columns in any order,
\* and the first visited column whose name contains key and whose index is in
\* the row gives the value. All the values a call can return.
get(h, row, key) ==
    LET hits == {n \in DOMAIN h : Contains(n, key) /\ h[n] <= Len(row)}
    IN  IF hits = {} THEN {<<>>} ELSE {TrimSpace(row[h[n]]) : n \in hits}

\* One pass of the loop over records[1:]: no record (continue) or one.
RowSales(h, row) ==
    UNION {
      IF ds = <<>> \/ IsZero(parseDateFlexible(ds)) THEN {<<>>}
      ELSE {<<[Date |-> parseDateFlexible(ds),
               Customer |-> nz(c, T_Unknown),
               Product |-> nz(p, T_Unknown),
               Amount |-> ParseFloat(DropCommas(TrimSpace(a))),
               Status |-> ToLower(st)]>> :
              a \in get(h, row, T_amount), c \in get(h, row, T_customer),
              p \in get(h, row, T_product), st \in get(h, row, T_status)}
      : ds \in get(h, row, T_date)}

RECURSIVE RowsSales(_, _)
RowsSales(h, rows) ==
    IF rows = <<>> THEN {<<>>}
    ELSE {a \o b : a \in RowSales(h, Head(rows)), b \in RowsSales(h, Tail(rows))}

\* Every outcome of parseCSV(r): [out, err].
parseCSV(in) ==
    LET r == ReadAll(in)
    IN  IF r.err # NoError THEN {[out |-> <<>>, err |-> r.err]}
        ELSE IF Len(r.records) < 2 THEN {[out |-> <<>>, err |-> "csv has no data rows"]}
        ELSE {[out |-> o, err |-> NoError] :
                o \in RowsSales(HeaderMap(r.records[1]), Tail(r.records))}

-----------------------------------------------------------------------------
(* parseCSV on small files (SpecParse) *)

MaxRows == 2

H_caps == << <<" ", "D", "a", "t", "e">>, <<"C", "u", "s", "t", "o", "m", "e", "r", " ">>, <<"P", "R", "O", "D", "U", "C", "T">>, <<"A", "m", "o", "u", "n", "t">>, <<"S", "t", "a", "t", "u", "s">> >>
H_due == << <<"d", "a", "t", "e">>, <<"c", "u", "s", "t", "o", "m", "e", "r">>, <<"p", "r", "o", "d", "u", "c", "t">>, <<"a", "m", "o", "u", "n", "t">>, <<"s", "t", "a", "t", "u", "s">>, <<"d", "u", "e", "_", "d", "a", "t", "e">> >>

\* 2024-12-28; December 29 (no month 29, so month/day); no date; text that is
\* no date; the first day of year 1.
DateTexts ==
    { <<"2", "0", "2", "4", "-", "1", "2", "-", "2", "8">>,
      <<"1", "2", "/", "2", "9", "/", "2", "0", "2", "4">>,
      <<>>,
      <<"n", "/", "a">>,
      <<"0", "0", "0", "1", "-", "0", "1", "-", "0", "1">> }

DueTexts == { <<>>, <<"2", "0", "2", "5", "-", "0", "1", "-", "1", "5">> }

T_Acme == <<"A", "c", "m", "e">>
T_WidgetA == <<"W", "i", "d", "g", "e", "t", "A">>
T_Paid == <<"P", "a", "i", "d">>

\* Rows under H_caps: every mix of date, customer, product and amount texts.
CapsRows ==
    {<<dt, c, p, a, T_Paid>> :
       dt \in DateTexts, c \in {T_Acme, <<" ">>}, p \in {T_WidgetA, <<>>},
       a \in { <<"1", ",", "2", "3", "4">>, <<"a", "b", "c">> }}

\* Rows under H_due: every mix of date and due date texts.
DueRows ==
    {<<dt, T_Acme, T_WidgetA, <<"1", "9", "9">>, <<"U", "N", "P", "A", "I", "D">>, due>> : dt \in DateTexts, due \in DueTexts}

\* The files: no row at all, a header with up to MaxRows data rows, and a
\* header followed by a row that lacks its last field.
ParseInputs ==
    {<<>>}
    \cup {<<H_caps>> \o rows : rows \in SeqsUpTo(CapsRows, MaxRows)}
    \cup {<<H_due>> \o rows : rows \in SeqsUpTo(DueRows, MaxRows)}
    \cup {<<H_caps, SubSeq(row, 1, 4)>> : row \in CapsRows}

\* sales, err := parseCSV(f)
RunParse ==
    /\ pc = "start"
    /\ \E r \in parseCSV(input) : out' = r.out /\ err' = r.err
    /\ pc' = "parsed"
    /\ UNCHANGED <<sales, k, k2, d, anoms, forecast, sugIn, sug, input, reparse, server>>

InitParse ==
    /\ pc = "start"
    /\ input \in ParseInputs
    /\ out = <<>> /\ err = NoError /\ out2 = <<>> /\ err2 = NoError
    /\ IdleKPIs /\ IdleSeries /\ IdleSuggest /\ IdleServer

NextParse == RunParse

SpecParse == InitParse /\ [][NextParse]_vars


\* The field of a row under the column named token (case and outer spaces aside).
FieldNamed(hdr, row, token) ==
    TrimSpace(row[CHOOSE i \in DOMAIN hdr : ToLower(TrimSpace(hdr[i])) = token])

\* A date text is present and some layout of parseDateFlexible parses it.
DateParses(s) ==
    s # <<>> /\ \E layout \in Range(Layouts) \cup {PartialLayout} : TimeParse(layout, s).ok

IsNumber(s) == s # <<>> /\ \A i \in DOMAIN s : s[i] \in Digits

\* C10: for rows read from the input, at least two of them: parseCSV succeeds
\* and returns, in input order, one record per data row whose date field is
\* present and parses; such a row keeps amount 0 for a non-numeric amount and
\* "Unknown" for an empty customer or product; with fewer than two rows it
\* returns an error and no record.
C10_RowTolerance ==
    (pc = "parsed" /\ ReadAll(input).err = NoError) =>
      IF Len(input) < 2 THEN err # NoError /\ out = <<>>
      ELSE
        LET hdr == input[1]
            kept == SelectSeq(Tail(input),
                              LAMBDA row : DateParses(FieldNamed(hdr, row, T_date)))
        IN  /\ err = NoError
            /\ Len(out) = Len(kept)
            /\ \A n \in DOMAIN kept :
                  LET a == DropCommas(FieldNamed(hdr, kept[n], T_amount))
                      c == FieldNamed(hdr, kept[n], T_customer)
                      p == FieldNamed(hdr, kept[n], T_product)
                  IN  /\ out[n].Amount = (IF IsNumber(a) THEN NumVal(a) ELSE 0)
                      /\ out[n].Customer = (IF c = <<>> THEN T_Unknown ELSE c)
                      /\ out[n].Product = (IF p = <<>> THEN T_Unknown ELSE p)

-----------------------------------------------------------------------------
(* parseCSV twice over one file (SpecReparse) *)

\* A second parseCSV over the same bytes (the same file read by another run).
ReParse ==
    /\ pc = "parsed"
    /\ \E r \in parseCSV(input) : out2' = r.out /\ err2' = r.err
    /\ pc' = "reparsed"
    /\ UNCHANGED <<sales, k, k2, d, anoms, forecast, sugIn, sug, input, out, err, server>>

InitReparse == InitParse

NextReparse == RunParse \/ ReParse

SpecReparse == InitReparse /\ [][NextReparse]_vars

\* C11: two runs of parseCSV over the same input return the same records and
\* the same error, also when two header columns contain one field token
\* ("date" and "due_date").
C11_SameRecords ==
    pc = "reparsed" => out2 = out /\ err2 = err

-----------------------------------------------------------------------------
(* Server mode: handleUpload, handleKPIs and handleIndex, one goroutine per *)
(* request, around the global latestKPIs (SpecServer).                      *)
(*                                                                          *)
(* The handlers share latestKPIs and the KPIs it points to without any      *)
(* synchronisation.  A store of handleUpload is therefore first pending:    *)
(* its own goroutine sees it, the other goroutines see it once Flush has    *)
(* made it visible, and the pending stores of a goroutine become visible in *)
(* any order.  The copy of the report into k is taken as one store, the     *)
(* narrative as a second, the pointer as a third.                           *)

MaxReqs == 3

\* A file with one paid sale, one with an unpaid sale, one with no data row.
F_paid ==
    <<H_caps, << <<"2", "0", "2", "4", "-", "1", "2", "-", "2", "8">>, T_Acme, T_WidgetA, <<"7">>, T_Paid >> >>
F_unpaid ==
    <<H_caps, << <<"1", "2", "/", "2", "9", "/", "2", "0", "2", "4">>, T_Acme, T_WidgetA, <<"1", ",", "2", "3", "4">>, <<"U", "n", "p", "a", "i", "d">> >> >>
F_header == <<H_caps>>

ServerFiles == {F_paid, F_unpaid, F_header}

\* A request before its handler runs; form tells whether the multipart form
\* of an upload carries the part "file".
NewReq(handler, form, file) ==
    [handler |-> handler, form |-> form, file |-> file, pc |-> "start",
     sales |-> <<>>, code |-> 0, body |-> NoKPIs, seen |-> {}]

\* The requests a client can send: uploads first, then the two reads.
ServerReqs ==
    <<NewReq("upload", TRUE, F_paid), NewReq("upload", TRUE, F_unpaid),
      NewReq("upload", TRUE, F_header), NewReq("upload", FALSE, <<>>),
      NewReq("kpis", FALSE, <<>>), NewReq("index", FALSE, <<>>)>>

\* MaxReqs requests in flight, at least one of them a read; which request has
\* which number does not matter, so they are numbered in the order of ServerReqs.
ServerLoads ==
    {[i \in 1..MaxReqs |-> ServerReqs[c[i]]] :
       c \in {c \in [1..MaxReqs -> DOMAIN ServerReqs] :
                /\ \A i \in 1..(MaxReqs - 1) : c[i] <= c[i + 1]
                /\ \E i \in 1..MaxReqs : ServerReqs[c[i]].handler # "upload"}}

\* The zero KPIs value with its ExecSummary: fresh memory for a variable k.
ZeroObj == [k |-> ZeroKPIs, ExecSummary |-> ""]

Stores == {"k", "ExecSummary", "latestKPIs"}

\* The uploads that have executed latestKPIs = &k.
Stored == {u \in DOMAIN reqs : reqs[u].handler = "upload" /\ reqs[u].pc \in {"stored", "done"}
                               /\ reqs[u].code # 400}

\* *p as a goroutine other than p's writer reads it.
Deref(p) ==
    [k |-> IF "k" \in pending[p] THEN ZeroKPIs ELSE heap[p].k,
     ExecSummary |-> IF "ExecSummary" \in pending[p] THEN "" ELSE heap[p].ExecSummary]

Respond(r, code, body) ==
    reqs' = [reqs EXCEPT ![r].pc = "done", ![r].code = code, ![r].body = body, ![r].seen = Stored]

\* handleUpload up to the parse: 400 without the file part or on a parse error.
UploadParse ==
    \E r \in DOMAIN reqs :
      /\ reqs[r].handler = "upload" /\ reqs[r].pc = "start"
      /\ IF ~reqs[r].form THEN Respond(r, 400, "file is required")
         ELSE \E p \in parseCSV(reqs[r].file) :
                IF p.err # NoError THEN Respond(r, 400, p.err)
                ELSE reqs' = [reqs EXCEPT ![r].pc = "parsed", ![r].sales = p.out]
      /\ UNCHANGED <<latestKPIs, heap, pending, apiKey, rest>>

\* k := computeKPIs(sales); k is the heap variable of this call.
UploadCompute ==
    \E r \in DOMAIN reqs :
      /\ reqs[r].handler = "upload" /\ reqs[r].pc = "parsed"
      /\ \E c \in computeKPIs(reqs[r].sales) : heap' = [heap EXCEPT ![r].k = c.k]
      /\ pending' = [pending EXCEPT ![r] = @ \cup {"k"}]
      /\ reqs' = [reqs EXCEPT ![r].pc = "computed"]
      /\ UNCHANGED <<latestKPIs, apiKey, rest>>

\* With OPENAI_API_KEY set, k.ExecSummary = openAISummary(ctx, k): a text, or
\* "" when the call fails.
UploadSummary ==
    \E r \in DOMAIN reqs :
      /\ reqs[r].handler = "upload" /\ reqs[r].pc = "computed"
      /\ IF apiKey
           THEN /\ \E s \in {"", "summary"} : heap' = [heap EXCEPT ![r].ExecSummary = s]
                /\ pending' = [pending EXCEPT ![r] = @ \cup {"ExecSummary"}]
           ELSE UNCHANGED <<heap, pending>>
      /\ reqs' = [reqs EXCEPT ![r].pc = "summarised"]
      /\ UNCHANGED <<latestKPIs, apiKey, rest>>

\* latestKPIs = &k
UploadStore ==
    \E r \in DOMAIN reqs :
      /\ reqs[r].handler = "upload" /\ reqs[r].pc = "summarised"
      /\ pending' = [pending EXCEPT ![r] = @ \cup {"latestKPIs"}]
      /\ reqs' = [reqs EXCEPT ![r].pc = "stored"]
      /\ UNCHANGED <<latestKPIs, heap, apiKey, rest>>

\* The alert when there are anomalies or overdue invoices, then the redirect.
UploadRedirect ==
    \E r \in DOMAIN reqs :
      /\ reqs[r].handler = "upload" /\ reqs[r].pc = "stored"
      /\ Respond(r, 303, [alert |-> Len(heap[r].k.Anomalies) > 0 \/ heap[r].k.OverdueCount > 0])
      /\ UNCHANGED <<latestKPIs, heap, pending, apiKey, rest>>

\* A pending store of upload r becomes visible to the other goroutines.
Flush ==
    \E r \in DOMAIN reqs, s \in Stores :
      /\ s \in pending[r]
      /\ pending' = [pending EXCEPT ![r] = @ \ {s}]
      /\ latestKPIs' = IF s = "latestKPIs" THEN r ELSE latestKPIs
      /\ UNCHANGED <<heap, reqs, apiKey, rest>>

\* handleKPIs: if latestKPIs == nil, 404.
KPIsCheck ==
    \E r \in DOMAIN reqs :
      /\ reqs[r].handler = "kpis" /\ reqs[r].pc = "start"
      /\ IF latestKPIs = 0 THEN Respond(r, 404, "no KPIs yet")
         ELSE reqs' = [reqs EXCEPT ![r].pc = "encode"]
      /\ UNCHANGED <<latestKPIs, heap, pending, apiKey, rest>>

\* handleKPIs: json.NewEncoder(w).Encode(latestKPIs)
KPIsEncode ==
    \E r \in DOMAIN reqs :
      /\ reqs[r].handler = "kpis" /\ reqs[r].pc = "encode"
      /\ Respond(r, 200, Deref(latestKPIs))
      /\ UNCHANGED <<latestKPIs, heap, pending, apiKey, rest>>

\* handleIndex: the page, with the report when latestKPIs is not nil.
IndexRender ==
    \E r \in DOMAIN reqs :
      /\ reqs[r].handler = "index" /\ reqs[r].pc = "start"
      /\ Respond(r, 200, IF latestKPIs = 0 THEN NoKPIs ELSE Deref(latestKPIs))
      /\ UNCHANGED <<latestKPIs, heap, pending, apiKey, rest>>

ServerIdle ==
    /\ IdleKPIs /\ IdleSeries /\ IdleSuggest /\ IdleParse

InitServer ==
    /\ pc = "serve"
    /\ latestKPIs = 0
    /\ reqs \in ServerLoads
    /\ heap = [r \in 1..MaxReqs |-> ZeroObj]
    /\ pending = [r \in 1..MaxReqs |-> {}]
    /\ apiKey \in BOOLEAN
    /\ ServerIdle

NextServer ==
    \/ UploadParse
    \/ UploadCompute
    \/ UploadSummary
    \/ UploadStore
    \/ UploadRedirect
    \/ Flush
    \/ KPIsCheck
    \/ KPIsEncode
    \/ IndexRender

SpecServer == InitServer /\ [][NextServer]_vars

\* C12: under every interleaving of uploads and reads, GET /api/kpis answers
\* 404 exactly when no upload has stored its report before, a report that is
\* served (by GET /api/kpis or by GET /) is the complete report of one upload
\* that has stored it, narrative included, and an upload that answers 400
\* has stored nothing.
C12_LatestReport ==
    \A r \in DOMAIN reqs :
      reqs[r].pc = "done" =>
        /\ reqs[r].handler = "kpis" =>
             /\ reqs[r].code = 404 <=> reqs[r].seen = {}
             /\ reqs[r].code = 200 => \E u \in reqs[r].seen : reqs[r].body = heap[u]
        /\ reqs[r].handler = "index" =>
             IF reqs[r].body = NoKPIs THEN reqs[r].seen = {}
             ELSE \E u \in reqs[r].seen : reqs[r].body = heap[u]
        /\ (reqs[r].handler = "upload" /\ reqs[r].code = 400) =>
             latestKPIs # r /\ heap[r] = ZeroObj /\ pending[r] = {}

-----------------------------------------------------------------------------
(* Average order value around the bundling limit (SpecAov) *)

MaxAovSales == 3

\* Orders of one customer on one day, with amounts below, at and above 50.
AovSales ==
    [Date : {DateAt(0, 0)}, Customer : {"Acme"}, Product : {"WidgetA"},
     Amount : {0 - 1, 49, 50, 100}, Status : {S_paid, S_unpaid}]

InitAov ==
    /\ pc = "start"
    /\ sales \in SeqsUpTo(AovSales, MaxAovSales)
    /\ k = NoKPIs /\ k2 = NoKPIs
    /\ IdleSeries /\ IdleSuggest /\ IdleParse /\ IdleServer

NextAov == RunKPIs

SpecAov == InitAov /\ [][NextAov]_vars

\* The report k carries a suggestion of this rule.
Suggests(rule) == \E i \in DOMAIN k.Suggestions : k.Suggestions[i].rule = rule

\* C13: every report of computeKPIs whose AvgOrderValue is below 50 has the
\* bundling suggestion, the report for no record at all (AvgOrderValue 0)
\* included.
C13_Bundling ==
    (pc = "computed" /\ FLt(k.AvgOrderValue, FInt(AovLimit))) => Suggests("bundling")

-----------------------------------------------------------------------------
(* Reports over a week and more of daily totals (SpecDays) *)

MaxDays == 8

\* One order a day from 2024-12-28 on, with the amounts given.
DaySales(vals) ==
    [i \in DOMAIN vals |->
       [Date |-> DateAt(i - 1, 0), Customer |-> "Acme", Product |-> "WidgetA",
        Amount |-> vals[i], Status |-> S_paid]]

InitDays ==
    /\ pc = "start"
    /\ \E n \in MinPoints..MaxDays : \E vals \in [1..n -> SeriesValues] : sales = DaySales(vals)
    /\ k = NoKPIs /\ k2 = NoKPIs
    /\ IdleSeries /\ IdleSuggest /\ IdleParse /\ IdleServer

NextDays == RunKPIs

SpecDays == InitDays /\ [][NextDays]_vars

\* The dip and spike messages of the report k.
AnomalyLines == {i \in DOMAIN k.Suggestions : k.Suggestions[i].rule \in {"dip", "spike"}}

\* C14: a report has as many dip or spike messages as anomalies, and a report
\* with an anomaly has an anomaly message or the steady message, also when the
\* z-score of an anomaly is exactly 2 or -2.
C14_AnomalyMessages ==
    pc = "computed" =>
      /\ Cardinality(AnomalyLines) = Len(k.Anomalies)
      /\ Len(k.Anomalies) > 0 => (AnomalyLines # {} \/ Suggests("steady"))

=============================================================================
